---- MODULE Spec2Model ----
(***************************************************************************)
(* Model of the experiment analysis core:                                  *)
(*   src/python/experiment_analysis.py           (frequentist report)      *)
(*   src/python/bayesian_experiment_analysis.py  (Bayesian report)         *)
(*                                                                         *)
(* Real numbers are kept exact: a rate or a mean is a fraction             *)
(* [num, den], a standard deviation s is kept as the fraction of its       *)
(* square (the code only ever uses s**2 and s**4), and a test statistic    *)
(* is kept by its sign.  None, NaN and a raised exception are explicit     *)
(* outcomes.                                                               *)
(***************************************************************************)
EXTENDS Integers, Sequences, FiniteSets, Bags, TLC

VARIABLES
    df,      \* the raw dataset handed to a report: a bag of rows
    out,     \* the last report call: its arguments, its locals and its outcome
    zcall,   \* the last direct call of two_proportion_ztest
    tcall,   \* the last direct call of two_sample_ttest
    calls,   \* the simulate_posterior_difference calls made so far
    sim      \* the last summary computed from two given sample arrays

vars == <<df, out, zcall, tcall, calls, sim>>

(***************************************************************************)
(* Bounds of the model.                                                    *)
(***************************************************************************)
MaxRows == 3      \* rows in a dataset
MaxN == 3         \* sample sizes and success counts given to the z-test
MaxT == 2         \* sample sizes, means and deviations given to the t-test
MaxCalls == 3     \* simulation calls in one history
MaxDraws == 2     \* n_draws of a simulation call
MaxSamples == 3   \* length of the sample arrays given to the summary
GridMax == 2      \* a sample is k / GridMax, k in 0..GridMax

(***************************************************************************)
(* Program constants.                                                      *)
(***************************************************************************)
A_PRIOR == 1
B_PRIOR == 1
RANDOM_STATE == 42

Idle == [kind |-> "idle"]

\* ---------------------------------------------------------------- helpers

RECURSIVE SumFn(_)
SumFn(f) ==
    IF DOMAIN f = {} THEN 0
    ELSE LET x == CHOOSE y \in DOMAIN f : TRUE
         IN  f[x] + SumFn([y \in (DOMAIN f) \ {x} |-> f[y]])

Sign(i) == IF i > 0 THEN 1 ELSE IF i < 0 THEN -1 ELSE 0

None == [kind |-> "None", sign |-> 0]
Raised(e) == [kind |-> e, sign |-> 0]
Stat(s) == [kind |-> "ok", sign |-> s]

\* ------------------------------------------------- two_proportion_ztest

\* pooled = (x1 + x2) / (n1 + n2), as a fraction
pooled(n1, x1, n2, x2) == [num |-> x1 + x2, den |-> n1 + n2]

\* `pooled in (0, 1)`
pooled_in_0_1(p) == p.num = 0 \/ p.num = p.den

\* the radicand pooled * (1 - pooled) * (1/n1 + 1/n2), times its positive
\* denominator (n1 + n2)^2 * n1 * n2
se_radicand(p, n1, n2) == p.num * (p.den - p.num) * (n1 + n2)

\* faulty variant: the difference taken as p1 - p2
z_sign_swapped(n1, x1, n2, x2) == Sign(x1 * n2 - x2 * n1)

\* the sign of p2 - p1 = x2/n2 - x1/n1
z_sign(n1, x1, n2, x2) == Sign(x2 * n1 - x1 * n2)

two_proportion_ztest(n1, x1, n2, x2) ==
    IF n1 = 0 \/ n2 = 0 THEN None
    ELSE LET p == pooled(n1, x1, n2, x2) IN
         IF pooled_in_0_1(p) THEN None
         ELSE IF se_radicand(p, n1, n2) < 0 THEN Raised("ValueError")  \* math.sqrt
         ELSE IF se_radicand(p, n1, n2) = 0 THEN None
         ELSE Stat(z_sign(n1, x1, n2, x2))

\* ----------------------------------------------------- two_sample_ttest

Frac(n, d) == [num |-> n, den |-> d]
\* a deviation s >= 0, kept as s^2 = sq_num / sq_den; nan is pandas' std of one row
Dev(n, d) == [nan |-> FALSE, sq_num |-> n, sq_den |-> d]
NaNDev == [nan |-> TRUE, sq_num |-> 0, sq_den |-> 1]

\* faulty variant: only empty samples are refused
sizes_too_small_zero_only(n1, n2) == n1 <= 0 \/ n2 <= 0

sizes_too_small(n1, n2) == n1 <= 1 \/ n2 <= 1

\* s1**2 / n1 + s2**2 / n2, times its positive denominator
se_sq(s1, n1, s2, n2) == s1.sq_num * s2.sq_den * n2 + s2.sq_num * s1.sq_den * n1

\* df_den = s1**4 / (n1**2 (n1 - 1)) + s2**4 / (n2**2 (n2 - 1)), times its
\* positive denominator
df_den(s1, n1, s2, n2) ==
      s1.sq_num * s1.sq_num * s2.sq_den * s2.sq_den * n2 * n2 * (n2 - 1)
    + s2.sq_num * s2.sq_num * s1.sq_den * s1.sq_den * n1 * n1 * (n1 - 1)

\* the sign of m2 - m1
t_sign(m1, m2) == Sign(m2.num * m1.den - m1.num * m2.den)

two_sample_ttest(m1, s1, n1, m2, s2, n2) ==
    IF sizes_too_small(n1, n2) THEN None
    ELSE IF se_sq(s1, n1, s2, n2) = 0 THEN None
    ELSE IF df_den(s1, n1, s2, n2) = 0 THEN None
    ELSE Stat(t_sign(m1, m2))

\* ------------------------------------------------ aggregate_for_experiment

DEFAULT_EXPERIMENT == "homepage_cta_test"
NOT_CONTAMINATED == "Not Contaminated"
Experiments == {DEFAULT_EXPERIMENT, "pricing_page_test"}
\* variant labels in the order pandas' groupby sorts them
VariantOrder == <<"control", "treatment">>
Variants == {VariantOrder[i] : i \in DOMAIN VariantOrder}
UserIds == {1, 2}

Row(e, v, u, elig, cont, rank, act, conv, book) ==
    [experiment_name |-> e, variant |-> v, user_id |-> u,
     is_eligible_visitor |-> elig, contamination_flag |-> cont,
     duplication_rank |-> rank, is_activated |-> act, is_converted |-> conv,
     new_booking_flag |-> book, nb_mrr |-> book]

\* The rows a dataset may hold: every row of the default experiment that is
\* eligible, clean and of rank 1, and for each variant one fully successful
\* row per way of differing in exactly one of the four filtered columns.
\* nb_mrr is 1 for a row with a new booking and 0 otherwise.
Rows ==
    {Row(DEFAULT_EXPERIMENT, v, u, 1, NOT_CONTAMINATED, 1, a, c, b) :
        v \in Variants, u \in UserIds, a \in {0, 1}, c \in {0, 1}, b \in {0, 1}}
    \cup {Row("pricing_page_test", v, 1, 1, NOT_CONTAMINATED, 1, 1, 1, 1) : v \in Variants}
    \cup {Row(DEFAULT_EXPERIMENT, v, 1, 0, NOT_CONTAMINATED, 1, 1, 1, 1) : v \in Variants}
    \cup {Row(DEFAULT_EXPERIMENT, v, 1, 1, "Contaminated", 1, 1, 1, 1) : v \in Variants}
    \cup {Row(DEFAULT_EXPERIMENT, v, 1, 1, NOT_CONTAMINATED, 2, 1, 1, 1) : v \in Variants}

\* faulty variant: the mask without the duplication_rank condition
in_clean_any_rank(r, experiment_name) ==
    /\ r.experiment_name = experiment_name
    /\ r.is_eligible_visitor = 1
    /\ r.contamination_flag = NOT_CONTAMINATED

\* the row mask of lines 90-95
in_clean(r, experiment_name) ==
    /\ r.experiment_name = experiment_name
    /\ r.is_eligible_visitor = 1
    /\ r.contamination_flag = NOT_CONTAMINATED
    /\ r.duplication_rank = 1

\* clean = df[mask]: the sub-bag of the rows the mask keeps
clean(d, experiment_name) ==
    [r \in {q \in DOMAIN d : in_clean(q, experiment_name)} |-> d[r]]

\* ("col", "sum") over one group g (a bag of rows)
col_sum_activated(g) == SumFn([r \in DOMAIN g |-> g[r] * r.is_activated])
col_sum_converted(g) == SumFn([r \in DOMAIN g |-> g[r] * r.is_converted])
col_sum_booking(g) == SumFn([r \in DOMAIN g |-> g[r] * r.new_booking_flag])
col_sum_mrr(g) == SumFn([r \in DOMAIN g |-> g[r] * r.nb_mrr])
col_sumsq_mrr(g) == SumFn([r \in DOMAIN g |-> g[r] * r.nb_mrr * r.nb_mrr])
\* ("nb_mrr", "size")
col_size(g) == SumFn([r \in DOMAIN g |-> g[r]])
\* ("user_id", "nunique")
col_nunique_user(g) == Cardinality({r.user_id : r \in DOMAIN g})
\* ("nb_mrr", "std"): the sample deviation (ddof = 1), NaN for a single row
col_std_mrr(g) ==
    LET n == col_size(g) IN
    IF n <= 1 THEN NaNDev
    ELSE Dev(n * col_sumsq_mrr(g) - col_sum_mrr(g) * col_sum_mrr(g), n * (n - 1))

group(c, v) == [r \in {q \in DOMAIN c : q.variant = v} |-> c[r]]

agg_row(v, g) ==
    [variant |-> v,
     users |-> col_nunique_user(g),
     activations |-> col_sum_activated(g),
     conversions |-> col_sum_converted(g),
     new_bookings |-> col_sum_booking(g),
     avg_nb_mrr |-> Frac(col_sum_mrr(g), col_size(g)),
     sd_nb_mrr |-> col_std_mrr(g),
     n_nb_mrr |-> col_size(g)]

\* one aggregate row per variant that has a row in the clean cohort
aggregate_for_experiment(d, experiment_name) ==
    LET c == clean(d, experiment_name) IN
    {agg_row(v, group(c, v)) : v \in {r.variant : r \in DOMAIN c}}

\* ------------------------------------------------------ report builders

Metrics == <<"activation_rate", "conversion_rate", "new_booking_rate">>

count_col(a, metric_name) ==
    IF metric_name = "activation_rate" THEN a.activations
    ELSE IF metric_name = "conversion_rate" THEN a.conversions
    ELSE a.new_bookings

NO_CONTROL == "No 'control' variant found in the aggregated data."

\* faulty variant: only an empty aggregate is refused
control_missing_when_empty(agg) == agg = {}

\* `"control" not in set(agg["variant"])`
control_missing(agg) == "control" \notin {a.variant : a \in agg}

\* the non-control aggregate rows
treatments(agg) == {a \in agg : a.variant # "control"}

\* the z-test of one (variant, metric) pair, lines 145-146
ztest_of(control, tr, metric_name) ==
    two_proportion_ztest(control.users, count_col(control, metric_name),
                         tr.users, count_col(tr, metric_name))

\* the t-test of one variant, lines 169-176
ttest_of(control, tr) ==
    two_sample_ttest(control.avg_nb_mrr, control.sd_nb_mrr, control.n_nb_mrr,
                     tr.avg_nb_mrr, tr.sd_nb_mrr, tr.n_nb_mrr)

\* `if z is None: continue`
skip_z(z) == z.kind = "None"

freq_rows(control, agg) ==
    {[variant |-> tr.variant, metric |-> Metrics[i], test |-> "two-proportion z-test",
      statistic |-> ztest_of(control, tr, Metrics[i]).sign] :
        <<tr, i>> \in {p \in treatments(agg) \X DOMAIN Metrics :
                          ~skip_z(ztest_of(control, p[1], Metrics[p[2]]))}}
    \cup
    {[variant |-> tr.variant, metric |-> "average_nb_mrr_per_user",
      test |-> "Welch two-sample t-test",
      statistic |-> ttest_of(control, tr).sign] :
        tr \in {a \in treatments(agg) : ttest_of(control, a).kind = "ok"}}

\* an exception raised inside a test ends the loop and the call
freq_raises(control, agg) ==
    \E tr \in treatments(agg), i \in DOMAIN Metrics :
        ztest_of(control, tr, Metrics[i]).kind \notin {"None", "ok"}

run_experiment_analysis_from_user_level(d, experiment_name) ==
    LET agg == aggregate_for_experiment(d, experiment_name) IN
    IF control_missing(agg)
    THEN [agg |-> agg, kind |-> "ValueError", msg |-> NO_CONTROL, rows |-> {},
          params |-> {}]
    ELSE IF ~\E a \in agg : a.variant = "control"      \* .iloc[0] of no row
    THEN [agg |-> agg, kind |-> "IndexError", msg |-> "", rows |-> {}, params |-> {}]
    ELSE LET control == CHOOSE a \in agg : a.variant = "control" IN
         IF freq_raises(control, agg)
         THEN [agg |-> agg, kind |-> "ValueError", msg |-> "math domain error",
               rows |-> {}, params |-> {}]
         ELSE [agg |-> agg, kind |-> "rows", msg |-> "",
               rows |-> freq_rows(control, agg), params |-> {}]

\* ------------------------------------------------ beta_posterior_params

beta_posterior_params(a_prior, b_prior, successes, trials) ==
    [a |-> a_prior + successes, b |-> b_prior + trials - successes]

\* ---------------------------------------- simulate_posterior_difference

\* A number that may be NaN, as a fraction.
Num(n, d) == [nan |-> FALSE, num |-> n, den |-> d]
NaN == [nan |-> TRUE, num |-> 0, den |-> 1]

RECURSIVE Factorial(_)
Factorial(n) == IF n <= 1 THEN 1 ELSE n * Factorial(n - 1)

\* every control sample k in 1..GridMax divides LiftScale, so a relative
\* lift (t - c) / c is the whole number (t - c) * LiftScale / c of 1 / LiftScale
LiftScale == Factorial(GridMax)

RECURSIVE SumSeq(_)
SumSeq(s) == IF s = <<>> THEN 0 ELSE Head(s) + SumSeq(Tail(s))

RECURSIVE Insert(_, _)
Insert(x, s) ==
    IF s = <<>> THEN <<x>>
    ELSE IF x <= Head(s) THEN <<x>> \o s
    ELSE <<Head(s)>> \o Insert(x, Tail(s))

RECURSIVE Sort(_)
Sort(s) == IF s = <<>> THEN <<>> ELSE Insert(Head(s), Sort(Tail(s)))

\* np.percentile(a, q) with linear interpolation, q = q40 / 40 of 100
\* (2.5 is 1/40, 97.5 is 39/40): the value at the virtual index
\* q40 * (n - 1) / 40 of the sorted array, in units of 1/40
percentile(a, q40) ==
    LET n == Len(a)
        srt == Sort(a)
        lo == (q40 * (n - 1)) \div 40
        r == (q40 * (n - 1)) % 40
        hi == IF lo + 2 <= n THEN lo + 2 ELSE n
    IN  srt[lo + 1] * (40 - r) + srt[hi] * r

\* the generator of np.random.default_rng(random_state): a state seeded
\* from random_state alone, advanced once per variate drawn
\* faulty variant: a generator whose state carries over from earlier calls
default_rng_shared(random_state) == (random_state + Len(calls)) % 16

default_rng(random_state) == random_state % 16

rng_advance(state) == (5 * state + 3) % 16

RECURSIVE rng_after(_, _)
rng_after(state, k) == IF k = 0 THEN state ELSE rng_after(rng_advance(state), k - 1)

\* one Beta(a, b) variate from a generator state, on the grid 0..GridMax
beta_variate(state, a, b) ==
    LET k == (2 * GridMax * a * state) \div ((a + b) * 15)
    IN  IF k > GridMax THEN GridMax ELSE k

\* rng.beta(a, b, size = n) from the generator in `state`
rng_beta(state, a, b, n) ==
    [i \in 1..n |-> beta_variate(rng_after(state, i), a, b)]

\* treatment_samples - control_samples
diff_of(control_samples, treatment_samples) ==
    [i \in DOMAIN control_samples |-> treatment_samples[i] - control_samples[i]]

\* faulty variant: a zero control sample gives lift 0 instead of NaN
rel_lift_entry_zero(c, d) ==
    IF c > 0 THEN Num((d * LiftScale) \div c, LiftScale) ELSE Num(0, LiftScale)

\* one entry of np.where(control_samples > 0, diff / control_samples, np.nan)
rel_lift_entry(c, d) ==
    IF c > 0 THEN Num((d * LiftScale) \div c, LiftScale) ELSE NaN

rel_lift_of(control_samples, diff) ==
    [i \in DOMAIN diff |-> rel_lift_entry(control_samples[i], diff[i])]

\* the entries of an array that are not NaN, as numerators
RECURSIVE not_nan(_)
not_nan(a) ==
    IF a = <<>> THEN <<>>
    ELSE IF Head(a).nan THEN not_nan(Tail(a))
    ELSE <<Head(a).num>> \o not_nan(Tail(a))

\* np.nanmean
nanmean(a) ==
    LET v == not_nan(a) IN IF v = <<>> THEN NaN ELSE Num(SumSeq(v), Len(v) * LiftScale)

\* np.nanpercentile
nanpercentile(a, q40) ==
    LET v == not_nan(a) IN IF v = <<>> THEN NaN ELSE Num(percentile(v, q40), 40 * LiftScale)

\* (treatment_samples > control_samples).mean()
prob_greater(control_samples, treatment_samples) ==
    Num(Cardinality({i \in DOMAIN control_samples :
                        treatment_samples[i] > control_samples[i]}),
        Len(control_samples))

\* lines 90-117: the summary of two sample arrays of equal length >= 1
summarize(control_samples, treatment_samples) ==
    LET n == Len(control_samples)
        diff == diff_of(control_samples, treatment_samples)
        rel_lift == rel_lift_of(control_samples, diff)
    IN  [diff |-> diff,
         rel_lift |-> rel_lift,
         posterior_mean_control |-> Num(SumSeq(control_samples), n * GridMax),
         posterior_mean_treatment |-> Num(SumSeq(treatment_samples), n * GridMax),
         posterior_mean_diff |-> Num(SumSeq(diff), n * GridMax),
         diff_ci_low |-> Num(percentile(diff, 1), 40 * GridMax),
         diff_ci_high |-> Num(percentile(diff, 39), 40 * GridMax),
         posterior_mean_rel_lift |-> nanmean(rel_lift),
         rel_lift_ci_low |-> nanpercentile(rel_lift, 1),
         rel_lift_ci_high |-> nanpercentile(rel_lift, 39),
         prob_treatment_greater |-> prob_greater(control_samples, treatment_samples)]

\* numpy's Generator.beta raises ValueError for a <= 0 or b <= 0
simulate_posterior_difference(a_c, b_c, a_t, b_t, n_draws, random_state) ==
    LET rng == default_rng(random_state) IN
    IF a_c <= 0 \/ b_c <= 0 \/ a_t <= 0 \/ b_t <= 0
    THEN [kind |-> "ValueError"]
    ELSE [kind |-> "ok",
          summary |-> summarize(rng_beta(rng, a_c, b_c, n_draws),
                                rng_beta(rng_after(rng, n_draws), a_t, b_t, n_draws))]

\* ------------------------------------------------------ Bayesian report

\* the (variant, metric) pairs in the order the two loops visit them
RECURSIVE loop_steps(_, _)
loop_steps(agg, i) ==
    IF i > Len(VariantOrder) THEN <<>>
    ELSE LET v == VariantOrder[i] IN
         (IF v # "control" /\ \E a \in agg : a.variant = v
          THEN [j \in DOMAIN Metrics |-> <<v, Metrics[j]>>]
          ELSE <<>>)
         \o loop_steps(agg, i + 1)

\* lines 160-164: the posterior parameters of one (variant, metric) pair
step_params(control, agg, step, a_prior, b_prior) ==
    LET tr == CHOOSE a \in agg : a.variant = step[1] IN
    [variant |-> step[1], metric |-> step[2],
     c |-> beta_posterior_params(a_prior, b_prior,
                                 count_col(control, step[2]), control.users),
     t |-> beta_posterior_params(a_prior, b_prior, count_col(tr, step[2]), tr.users)]

step_summary(p, n_draws) ==
    simulate_posterior_difference(p.c.a, p.c.b, p.t.a, p.t.b, n_draws, RANDOM_STATE)

\* the steps the loop runs: all of them, or those up to the first that raises
steps_run(control, agg, a_prior, b_prior, n_draws) ==
    LET steps == loop_steps(agg, 1)
        bad == {k \in DOMAIN steps :
                  step_summary(step_params(control, agg, steps[k], a_prior, b_prior),
                               n_draws).kind # "ok"}
        last == IF bad = {} THEN Len(steps)
                ELSE CHOOSE k \in bad : \A m \in bad : k <= m
    IN  [raised |-> bad # {},
         params |-> [k \in 1..last |->
                        step_params(control, agg, steps[k], a_prior, b_prior)]]

bayes_row(p, a_prior, b_prior, n_draws) ==
    [variant |-> p.variant, metric |-> p.metric, prior_a |-> a_prior,
     prior_b |-> b_prior, summary |-> step_summary(p, n_draws).summary]

run_bayesian_experiment_analysis_from_user_level(d, experiment_name, a_prior, b_prior, n_draws) ==
    LET agg == aggregate_for_experiment(d, experiment_name) IN
    IF control_missing(agg)
    THEN [agg |-> agg, kind |-> "ValueError", msg |-> NO_CONTROL, rows |-> {},
          params |-> {}]
    ELSE IF ~\E a \in agg : a.variant = "control"      \* .iloc[0] of no row
    THEN [agg |-> agg, kind |-> "IndexError", msg |-> "", rows |-> {}, params |-> {}]
    ELSE LET control == CHOOSE a \in agg : a.variant = "control"
             run == steps_run(control, agg, a_prior, b_prior, n_draws)
             params == {run.params[k] : k \in DOMAIN run.params}
         IN  IF run.raised
             THEN [agg |-> agg, kind |-> "ValueError", msg |-> "b <= 0", rows |-> {},
                   params |-> params]
             ELSE [agg |-> agg, kind |-> "rows", msg |-> "",
                   rows |-> {bayes_row(p, a_prior, b_prior, n_draws) : p \in params},
                   params |-> params]

Init ==
    /\ df = EmptyBag
    /\ out = Idle
    /\ zcall = Idle
    /\ tcall = Idle
    /\ calls = <<>>
    /\ sim = Idle

\* a direct call of two_proportion_ztest
CallZTest ==
    /\ zcall = Idle
    /\ \E n1, x1, n2, x2 \in 0..MaxN :
          zcall' = [kind |-> "call", n1 |-> n1, x1 |-> x1, n2 |-> n2, x2 |-> x2,
                    result |-> two_proportion_ztest(n1, x1, n2, x2)]
    /\ UNCHANGED <<df, out, tcall, calls, sim>>

NextZ == CallZTest
SpecZ == Init /\ [][NextZ]_vars

\* a direct call of two_sample_ttest with whole-number means and deviations
CallTTest ==
    /\ tcall = Idle
    /\ \E m1, m2 \in 0..1, s1, s2 \in 0..MaxT, n1, n2 \in 0..(MaxT + 1) :
          tcall' = [kind |-> "call", m1 |-> m1, s1 |-> s1, n1 |-> n1,
                    m2 |-> m2, s2 |-> s2, n2 |-> n2,
                    result |-> two_sample_ttest(Frac(m1, 1), Dev(s1 * s1, 1), n1,
                                                Frac(m2, 1), Dev(s2 * s2, 1), n2)]
    /\ UNCHANGED <<df, out, zcall, calls, sim>>

NextT == CallTTest
SpecT == Init /\ [][NextT]_vars

\* the supplier adds one observation to the dataset it will hand over
AppendRow ==
    /\ out = Idle
    /\ BagCardinality(df) < MaxRows
    /\ \E r \in Rows : df' = df (+) SetToBag({r})
    /\ UNCHANGED <<out, zcall, tcall, calls, sim>>

\* the frequentist report on the dataset
RunFrequentist ==
    /\ out = Idle
    /\ \E e \in Experiments :
          out' = [report |-> "frequentist", experiment_name |-> e]
                 @@ run_experiment_analysis_from_user_level(df, e)
    /\ UNCHANGED <<df, zcall, tcall, calls, sim>>

\* the Bayesian report on the dataset, with the default prior
RunBayesian ==
    /\ out = Idle
    /\ \E e \in Experiments :
          out' = [report |-> "bayesian", experiment_name |-> e]
                 @@ run_bayesian_experiment_analysis_from_user_level(
                        df, e, A_PRIOR, B_PRIOR, MaxDraws)
    /\ UNCHANGED <<df, zcall, tcall, calls, sim>>

Next == AppendRow \/ RunFrequentist \/ RunBayesian
Spec == Init /\ [][Next]_vars

\* one call of simulate_posterior_difference, after any calls before it
Simulate ==
    /\ Len(calls) < MaxCalls
    /\ \E b_c, a_t \in 1..2, n_draws \in 1..MaxDraws, random_state \in {7, RANDOM_STATE} :
          calls' = Append(calls,
                     [a_c |-> 1, b_c |-> b_c, a_t |-> a_t, b_t |-> 1,
                      n_draws |-> n_draws, random_state |-> random_state,
                      result |-> simulate_posterior_difference(
                                     1, b_c, a_t, 1, n_draws, random_state)])
    /\ UNCHANGED <<df, out, zcall, tcall, sim>>

NextSim == Simulate
SpecSim == Init /\ [][NextSim]_vars

\* the summary of two sample arrays the generator may have produced: any two
\* arrays of one length over the grid
Summarize ==
    /\ sim = Idle
    /\ \E n \in 1..MaxSamples :
         \E control_samples, treatment_samples \in [1..n -> 0..GridMax] :
            sim' = [kind |-> "call", control_samples |-> control_samples,
                    treatment_samples |-> treatment_samples]
                   @@ summarize(control_samples, treatment_samples)
    /\ UNCHANGED <<df, out, zcall, tcall, calls>>

NextLift == Summarize
SpecLift == Init /\ [][NextLift]_vars

\* ------------------------------------------------------------- claims

\* a report has run on the dataset
Ran == out # Idle

\* the four conditions of the clean cohort, for the experiment the report was given
PassesAll(r) ==
    /\ r.experiment_name = out.experiment_name
    /\ r.is_eligible_visitor = 1
    /\ r.contamination_flag = "Not Contaminated"
    /\ r.duplication_rank = 1

Cohort == {r \in DOMAIN df : PassesAll(r)}
CohortOf(v) == {r \in Cohort : r.variant = v}
ControlInCohort == CohortOf("control") # {}

\* C1: when the clean cohort holds no "control" row (only other variants, or
\* nothing at all), either report fails with the missing-control ValueError
\* and returns no rows.
C1_MissingControlRaises ==
    (Ran /\ ~ControlInCohort) =>
        /\ out.kind = "ValueError"
        /\ out.msg = NO_CONTROL
        /\ out.rows = {}

\* C1 witness: a report ran on a cohort with treatment rows only and raised
C1_Witness ==
    /\ Ran
    /\ out.report = "bayesian"
    /\ ~ControlInCohort
    /\ CohortOf("treatment") # {}
    /\ out.kind = "ValueError"

\* C2: every aggregate row has activations, conversions and new_bookings at
\* most users, for any dataset, also one with several rank-1 rows of one user.
C2_SuccessesAtMostUsers ==
    Ran => \A a \in out.agg :
              /\ a.activations <= a.users
              /\ a.conversions <= a.users
              /\ a.new_bookings <= a.users

\* C3: a row counts in its variant's aggregates exactly when it passes all
\* four conditions: each variant's counts are those of its passing rows alone,
\* and a variant with no passing row has no aggregate row.
C3_FilterIffAllFour ==
    Ran => \A v \in Variants :
        LET P == CohortOf(v)
            A == {a \in out.agg : a.variant = v}
        IN  /\ (P = {}) => (A = {})
            /\ (P # {}) =>
                 /\ Cardinality(A) = 1
                 /\ \A a \in A :
                      /\ a.users = Cardinality({r.user_id : r \in P})
                      /\ a.activations = SumFn([r \in P |-> df[r] * r.is_activated])
                      /\ a.conversions = SumFn([r \in P |-> df[r] * r.is_converted])
                      /\ a.new_bookings = SumFn([r \in P |-> df[r] * r.new_booking_flag])
                      /\ a.n_nb_mrr = SumFn([r \in P |-> df[r]])
                      /\ a.avg_nb_mrr.num = SumFn([r \in P |-> df[r] * r.nb_mrr])

\* C3 witness: a variant with a passing row and a row that fails only the
\* rank condition, and another variant whose only row fails a condition
C3_Witness ==
    /\ Ran
    /\ CohortOf("treatment") # {}
    /\ \E r \in DOMAIN df : r.variant = "treatment" /\ r.duplication_rank # 1
    /\ CohortOf("control") = {}
    /\ \E r \in DOMAIN df : r.variant = "control"
    /\ Cardinality(out.agg) = 1

\* C4: two_proportion_ztest is undefined for n1 = 0, n2 = 0, pooled 0
\* (x1 = x2 = 0) and pooled 1 (x1 + x2 = n1 + n2); for every other input with
\* n1, n2 > 0, x1 <= n1, x2 <= n2 it is defined and the sign of z is the sign
\* of x2/n2 - x1/n1.
C4_ZTestDefinedness ==
    zcall # Idle =>
        LET n1 == zcall.n1  x1 == zcall.x1  n2 == zcall.n2  x2 == zcall.x2
            degenerate == \/ n1 = 0
                          \/ n2 = 0
                          \/ (x1 = 0 /\ x2 = 0)
                          \/ x1 + x2 = n1 + n2
        IN  /\ degenerate => zcall.result.kind = "None"
            /\ (~degenerate /\ x1 <= n1 /\ x2 <= n2) =>
                 /\ zcall.result.kind = "ok"
                 /\ (zcall.result.sign = 1) <=> (x2 * n1 > x1 * n2)
                 /\ (zcall.result.sign = -1) <=> (x2 * n1 < x1 * n2)

\* C4 witness: a defined test with a negative statistic
C4_Witness ==
    /\ zcall # Idle
    /\ zcall.n1 = 2 /\ zcall.x1 = 2 /\ zcall.n2 = 3 /\ zcall.x2 = 1
    /\ zcall.result.kind = "ok"
    /\ zcall.result.sign = -1

\* C5: two_sample_ttest is undefined for n1 <= 1, n2 <= 1 and s1 = s2 = 0
\* (zero standard error, zero degrees-of-freedom denominator); for
\* n1, n2 >= 2 with s1 > 0 or s2 > 0 it is defined.
C5_TTestDefinedness ==
    tcall # Idle =>
        /\ (tcall.n1 <= 1 \/ tcall.n2 <= 1 \/ (tcall.s1 = 0 /\ tcall.s2 = 0)) =>
              tcall.result.kind = "None"
        /\ (tcall.n1 >= 2 /\ tcall.n2 >= 2 /\ (tcall.s1 > 0 \/ tcall.s2 > 0)) =>
              tcall.result.kind = "ok"

\* C5 witness: n1 = n2 = 2 with s1 = s2 = 0 is undefined
C5_Witness ==
    /\ tcall # Idle
    /\ tcall.n1 = 2 /\ tcall.n2 = 2 /\ tcall.s1 = 0 /\ tcall.s2 = 0
    /\ tcall.m1 # tcall.m2
    /\ tcall.result.kind = "None"

\* C6: with a control variant in the clean cohort the frequentist report
\* never raises; it holds one row per (non-control variant, binary metric)
\* whose z-test is defined and none where it is undefined, at most one
\* revenue row per non-control variant, and no row for control.
C6_FrequentistNeverRaises ==
    (Ran /\ out.report = "frequentist" /\ ControlInCohort) =>
        /\ out.kind = "rows"
        /\ \A r \in out.rows : r.variant # "control"
        /\ \A tr \in treatments(out.agg) : \A i \in DOMAIN Metrics :
             LET control == CHOOSE a \in out.agg : a.variant = "control"
                 z == two_proportion_ztest(control.users, count_col(control, Metrics[i]),
                                           tr.users, count_col(tr, Metrics[i]))
                 got == {r \in out.rows : r.variant = tr.variant /\ r.metric = Metrics[i]}
             IN  Cardinality(got) = (IF z.kind = "None" THEN 0 ELSE 1)
        /\ \A tr \in treatments(out.agg) :
             Cardinality({r \in out.rows : r.variant = tr.variant
                             /\ r.metric = "average_nb_mrr_per_user"}) <= 1

\* C7: with a control variant in the clean cohort the Bayesian report holds
\* exactly three rows per non-control variant and none for control.
C7_BayesianThreeRowsPerVariant ==
    (Ran /\ out.report = "bayesian" /\ ControlInCohort) =>
        /\ out.kind = "rows"
        /\ Cardinality(out.rows) = 3 * Cardinality(treatments(out.agg))
        /\ \A r \in out.rows : r.variant # "control"

\* C8: every posterior parameter pair the Bayesian report computes with the
\* positive default prior has alpha > 0 and beta > 0.
C8_PosteriorParamsPositive ==
    (Ran /\ out.report = "bayesian") =>
        \A p \in out.params :
            p.c.a > 0 /\ p.c.b > 0 /\ p.t.a > 0 /\ p.t.b > 0

SameArgs(x, y) ==
    /\ x.a_c = y.a_c /\ x.b_c = y.b_c /\ x.a_t = y.a_t /\ x.b_t = y.b_t
    /\ x.n_draws = y.n_draws /\ x.random_state = y.random_state

Defined == {i \in DOMAIN sim.control_samples : sim.control_samples[i] # 0}

\* the relative lift of draw i, in units of 1 / LiftScale
LiftOf(i) ==
    ((sim.treatment_samples[i] - sim.control_samples[i]) * LiftScale)
        \div sim.control_samples[i]

\* the relative lifts of the draws in Defined, in draw order
RECURSIVE DefinedLifts(_)
DefinedLifts(i) ==
    IF i > Len(sim.control_samples) THEN <<>>
    ELSE (IF i \in Defined THEN <<LiftOf(i)>> ELSE <<>>) \o DefinedLifts(i + 1)

AllDiffs ==
    [i \in DOMAIN sim.control_samples |->
        sim.treatment_samples[i] - sim.control_samples[i]]

\* C10: the relative-lift mean and bounds are those of exactly the draws with
\* a non-zero control sample (NaN when there is none); the difference mean,
\* the difference bounds and the probability of superiority are those of all
\* the draws; the probability is in [0, 1] and the difference bounds are
\* ordered.
C10_LiftExcludesZeroControl ==
    sim # Idle =>
        LET n == Len(sim.control_samples)
            k == Cardinality(Defined)
            wins == Cardinality({i \in 1..n :
                        sim.treatment_samples[i] > sim.control_samples[i]})
        IN  /\ \A i \in 1..n : sim.rel_lift[i].nan <=> (i \notin Defined)
            /\ sim.posterior_mean_rel_lift.nan <=> (k = 0)
            /\ sim.rel_lift_ci_low.nan <=> (k = 0)
            /\ sim.rel_lift_ci_high.nan <=> (k = 0)
            /\ k > 0 =>
                 /\ sim.posterior_mean_rel_lift.num * k * LiftScale
                      = sim.posterior_mean_rel_lift.den
                          * SumFn([i \in Defined |-> LiftOf(i)])
                 /\ sim.rel_lift_ci_low.num = percentile(DefinedLifts(1), 1)
                 /\ sim.rel_lift_ci_high.num = percentile(DefinedLifts(1), 39)
                 /\ sim.rel_lift_ci_low.num <= sim.rel_lift_ci_high.num
                 /\ \E i \in Defined : 40 * LiftOf(i) <= sim.rel_lift_ci_low.num
                 /\ \E i \in Defined : sim.rel_lift_ci_high.num <= 40 * LiftOf(i)
            /\ sim.posterior_mean_diff.num = SumSeq(sim.treatment_samples)
                                                - SumSeq(sim.control_samples)
            /\ sim.posterior_mean_diff.den = n * GridMax
            /\ sim.diff_ci_low.num = percentile(AllDiffs, 1)
            /\ sim.diff_ci_high.num = percentile(AllDiffs, 39)
            /\ sim.diff_ci_low.num <= sim.diff_ci_high.num
            /\ sim.prob_treatment_greater.num = wins
            /\ sim.prob_treatment_greater.den = n
            /\ 0 <= wins /\ wins <= n

\* C10 witness: three draws, one with a zero control sample that the
\* treatment sample exceeds, two with different defined lifts
C10_Witness ==
    /\ sim # Idle
    /\ Len(sim.control_samples) = 3
    /\ Cardinality(Defined) = 2
    /\ \E i \in 1..3 : sim.control_samples[i] = 0 /\ sim.treatment_samples[i] > 0
    /\ \E i, j \in Defined : LiftOf(i) # LiftOf(j)
    /\ ~sim.posterior_mean_rel_lift.nan

====
